---- MODULE Spec2Model ----
(***************************************************************************)
(* A model of data_crawler.py: the crawler reads the publication index,    *)
(* keeps the codes of the "Dados" publications, and for each code          *)
(* downloads the table, normalises it, serialises it and inserts the       *)
(* batch into the MongoDB collection.                                      *)
(*                                                                         *)
(* Strings are tuples of one-character strings, so that slicing, trimming  *)
(* and comparison are computed and not assumed.  A table cell is a record  *)
(* [t, s, n]: t is the kind of value, s its text, n its number.            *)
(***************************************************************************)
EXTENDS Integers, Sequences, FiniteSets, TLC

VARIABLES
    index,             \* the decoded index payload (json_response)
    file_codes,        \* the list get_file_codes returned
    pc,                \* where main is
    i,                 \* position in file_codes of the code being processed
    error,             \* the uncaught exception that ended the run, or "none"
    dataframe,         \* main's dataframe
    parsed_documents,  \* main's parsed_documents
    documents,         \* main's documents
    clients,           \* every MongoClient created so far: "open" or "closed"
    sink,              \* the documents of the MongoDB collection, in order
    fetched,           \* history: the tables downloaded so far, as downloaded
    log,               \* history: the steps taken so far
    returned,          \* main returned True
    age_in,            \* an argument of get_age_average
    age_out            \* what get_age_average returned for age_in

vars == <<index, file_codes, pc, i, error, dataframe, parsed_documents,
          documents, clients, sink, fetched, log, returned, age_in, age_out>>

(***************************************************************************)
(* Bounds of the model.                                                    *)
(***************************************************************************)
\* longest index payload
MaxEntries == 2
\* most rows in one downloaded table
MaxRows == 2

(***************************************************************************)
(* Module constants of data_crawler.py.                                    *)
(***************************************************************************)
SOURCE_FILE_PARTIAL_NAME == <<"D", "a", "d", "o", "s">>
FIRST_FIVE_CHARS == 5
AGE_LESS_20 == <<"a", "t", "é", " ", "2", "0", " ", "a", "n", "o", "s">>
AGE_BTW_21_AND_30 == <<"e", "n", "t", "r", "e", " ", "2", "1", " ", "e", " ", "3", "0">>
AGE_BTW_31_AND_40 == <<"e", "n", "t", "r", "e", " ", "3", "1", " ", "e", " ", "4", "0">>
AGE_BTW_41_AND_50 == <<"e", "n", "t", "r", "e", " ", "4", "1", " ", "e", " ", "5", "0">>
AGE_BTW_51_AND_60 == <<"e", "n", "t", "r", "e", " ", "5", "1", " ", "e", " ", "6", "0">>
AGE_BTW_61_AND_70 == <<"e", "n", "t", "r", "e", " ", "6", "1", " ", "e", " ", "7", "0">>

(***************************************************************************)
(* Python values.                                                          *)
(***************************************************************************)
\* s[:n + 1], a slice one character too long
SliceOneMore(s, n) == SubSeq(s, 1, IF Len(s) < n + 1 THEN Len(s) ELSE n + 1)

\* s[:n]
Slice(s, n) == SubSeq(s, 1, IF Len(s) < n THEN Len(s) ELSE n)

\* a str cell, a missing cell (NaN), a float64 cell
Str(s) == [t |-> "str", s |-> s, n |-> 0]
NaN == [t |-> "nan", s |-> <<>>, n |-> 0]
Float(n) == [t |-> "float", s |-> <<>>, n |-> n]

(***************************************************************************)
(* The index payload: a JSON array of objects.  A key that is absent from  *)
(* an object is recorded by has_titulo / has_codigo.                       *)
(***************************************************************************)
Entry(titulo, codigo) ==
    [has_titulo |-> TRUE, titulo |-> titulo, has_codigo |-> TRUE, codigo |-> codigo]
NoTitulo(codigo) ==
    [has_titulo |-> FALSE, titulo |-> <<>>, has_codigo |-> TRUE, codigo |-> codigo]
NoCodigo(titulo) ==
    [has_titulo |-> TRUE, titulo |-> titulo, has_codigo |-> FALSE, codigo |-> ""]

\* A loop that stops at an object without the key and returns the codes it
\* has so far, as a loop wrapped in try/except would.
RECURSIVE FileCodesLoopPartial(_, _, _)
FileCodesLoopPartial(json_response, k, acc) ==
    IF k > Len(json_response) THEN [err |-> "none", codes |-> acc]
    ELSE LET source_file == json_response[k] IN
         IF ~source_file.has_titulo THEN [err |-> "none", codes |-> acc]
         ELSE IF Slice(source_file.titulo, FIRST_FIVE_CHARS) = SOURCE_FILE_PARTIAL_NAME
              THEN IF ~source_file.has_codigo
                   THEN [err |-> "none", codes |-> acc]
                   ELSE FileCodesLoopPartial(json_response, k + 1,
                                             Append(acc, source_file.codigo))
              ELSE FileCodesLoopPartial(json_response, k + 1, acc)

\* The loop of get_file_codes over json_response[k..]: acc is file_codes so
\* far.  source_file[TITLE] raises KeyError when the key is absent;
\* source_file[CODE] is evaluated only when the title matches.
RECURSIVE FileCodesLoop(_, _, _)
FileCodesLoop(json_response, k, acc) ==
    IF k > Len(json_response) THEN [err |-> "none", codes |-> acc]
    ELSE LET source_file == json_response[k] IN
         IF ~source_file.has_titulo THEN [err |-> "KeyError", codes |-> <<>>]
         ELSE IF Slice(source_file.titulo, FIRST_FIVE_CHARS) = SOURCE_FILE_PARTIAL_NAME
              THEN IF ~source_file.has_codigo
                   THEN [err |-> "KeyError", codes |-> <<>>]
                   ELSE FileCodesLoop(json_response, k + 1,
                                      Append(acc, source_file.codigo))
              ELSE FileCodesLoop(json_response, k + 1, acc)

get_file_codes(json_response) == FileCodesLoop(json_response, 1, <<>>)

(***************************************************************************)
(* get_file_dataframe: a downloaded table is its number of columns and its *)
(* rows; a row is the tuple of its cells, the cell of pandas position p    *)
(* being row[p + 1].                                                       *)
(***************************************************************************)
Table(ncols, rows) == [ncols |-> ncols, rows |-> rows]

\* a list of unused columns that is off by one in its first position
unused_columns_from_8 == {8, 10, 11, 13, 14, 16, 17, 19}

\* main, "Remove the list of unused columns from the dataframe"
unused_columns == {9, 10, 11, 13, 14, 16, 17, 19}

\* main, "Rename the remaining dataframe columns to more reliable names"
columns == <<"region", "state", "city", "gender", "age_range",
             "conclusion_date", "days_to_reply", "company_name",
             "market_segment", "problem_reported", "company_replied",
             "customer_rating">>

\* The positions 0 .. ncols-1 that dataframe.drop leaves, in column order.
RECURSIVE KeptFrom(_, _)
KeptFrom(p, ncols) ==
    IF p >= ncols THEN <<>>
    ELSE IF p \in unused_columns THEN KeptFrom(p + 1, ncols)
         ELSE <<p>> \o KeptFrom(p + 1, ncols)

\* dataframe.columns[unused_columns] indexes past the end (IndexError) when
\* the table has fewer columns than the largest unused position.
DropFails(ncols) == \E p \in unused_columns : p >= ncols

\* Assigning dataframe.columns raises ValueError unless as many columns
\* remain as there are names.
RenameFails(ncols) == Len(KeptFrom(0, ncols)) # Len(columns)

\* One row after drop and rename: a record keyed by the new names, the
\* k-th name of the list taking the cell of the k-th column left.
ProjectRow(row, ncols) ==
    LET kept == KeptFrom(0, ncols) IN
    [region |-> row[kept[1] + 1],
     state |-> row[kept[2] + 1],
     city |-> row[kept[3] + 1],
     gender |-> row[kept[4] + 1],
     age_range |-> row[kept[5] + 1],
     conclusion_date |-> row[kept[6] + 1],
     days_to_reply |-> row[kept[7] + 1],
     company_name |-> row[kept[8] + 1],
     market_segment |-> row[kept[9] + 1],
     problem_reported |-> row[kept[10] + 1],
     company_replied |-> row[kept[11] + 1],
     customer_rating |-> row[kept[12] + 1]]

\* every row after drop and rename
RECURSIVE ProjectRows(_, _)
ProjectRows(rows, ncols) ==
    IF rows = <<>> THEN <<>>
    ELSE <<ProjectRow(Head(rows), ncols)>> \o ProjectRows(Tail(rows), ncols)

(***************************************************************************)
(* strip_dataframe_strings                                                 *)
(***************************************************************************)
RECURSIVE LStrip(_)
LStrip(s) == IF s # <<>> /\ Head(s) = " " THEN LStrip(Tail(s)) ELSE s

RECURSIVE RStrip(_)
RStrip(s) ==
    IF s # <<>> /\ s[Len(s)] = " " THEN RStrip(SubSeq(s, 1, Len(s) - 1)) ELSE s

\* str.strip()
Strip(s) == RStrip(LStrip(s))

\* select_dtypes(['object']): read_csv gives a column the object dtype when
\* it holds text; a column of numbers and missing values is float64.
IsObjectColumn(rows, name) == \E r \in 1..Len(rows) : rows[r][name].t = "str"

\* Series.str.strip(): text is trimmed, any other element becomes NaN.
StrStrip(cell) == IF cell.t = "str" THEN Str(Strip(cell.s)) ELSE NaN

\* x.str.strip() for the column name
RECURSIVE StripColumn(_, _)
StripColumn(rows, name) ==
    IF rows = <<>> THEN <<>>
    ELSE <<[Head(rows) EXCEPT ![name] = StrStrip(@)]>> \o StripColumn(Tail(rows), name)

\* The columns from the k-th on, each trimmed if it is of the object dtype.
RECURSIVE StripColumnsFrom(_, _)
StripColumnsFrom(rows, k) ==
    IF k > Len(columns) THEN rows
    ELSE StripColumnsFrom(
             IF IsObjectColumn(rows, columns[k]) THEN StripColumn(rows, columns[k])
             ELSE rows,
             k + 1)

strip_dataframe_strings(rows) == StripColumnsFrom(rows, 1)

(***************************************************************************)
(* get_age_average                                                         *)
(***************************************************************************)
Int64(n) == [t |-> "int", s |-> <<>>, n |-> n]

\* get_age_average without the branch of the last bracket
get_age_average_no_61_70(age_range) ==
    IF age_range = Str(AGE_LESS_20) THEN 20
    ELSE IF age_range = Str(AGE_BTW_21_AND_30) THEN 26
    ELSE IF age_range = Str(AGE_BTW_31_AND_40) THEN 36
    ELSE IF age_range = Str(AGE_BTW_41_AND_50) THEN 46
    ELSE IF age_range = Str(AGE_BTW_51_AND_60) THEN 56
    ELSE 70

get_age_average(age_range) ==
    IF age_range = Str(AGE_LESS_20) THEN 20
    ELSE IF age_range = Str(AGE_BTW_21_AND_30) THEN 26
    ELSE IF age_range = Str(AGE_BTW_31_AND_40) THEN 36
    ELSE IF age_range = Str(AGE_BTW_41_AND_50) THEN 46
    ELSE IF age_range = Str(AGE_BTW_51_AND_60) THEN 56
    ELSE IF age_range = Str(AGE_BTW_61_AND_70) THEN 66
    ELSE 70

(***************************************************************************)
(* pd.to_datetime(..., format='%d/%m/%Y')                                  *)
(***************************************************************************)
Digits == <<"0", "1", "2", "3", "4", "5", "6", "7", "8", "9">>

IsDigit(c) == \E k \in 1..Len(Digits) : Digits[k] = c

DigitVal(c) == (CHOOSE k \in 1..Len(Digits) : Digits[k] = c) - 1

AllDigits(s) == \A k \in 1..Len(s) : IsDigit(s[k])

RECURSIVE Number(_)
Number(s) ==
    IF s = <<>> THEN 0 ELSE 10 * Number(SubSeq(s, 1, Len(s) - 1)) + DigitVal(s[Len(s)])

\* The pieces of s between the occurrences of sep, from the piece that
\* starts at position start and has no sep before position k.
RECURSIVE SplitFrom(_, _, _, _)
SplitFrom(s, sep, start, k) ==
    IF k > Len(s) THEN <<SubSeq(s, start, Len(s))>>
    ELSE IF s[k] = sep
         THEN <<SubSeq(s, start, k - 1)>> \o SplitFrom(s, sep, k + 1, k + 1)
         ELSE SplitFrom(s, sep, start, k + 1)

\* The pieces of s between the occurrences of sep.
Split(s, sep) == SplitFrom(s, sep, 1, 1)

IsLeap(y) == (y % 4 = 0 /\ y % 100 # 0) \/ y % 400 = 0

DaysInMonth(y, m) ==
    IF m = 2 THEN (IF IsLeap(y) THEN 29 ELSE 28)
    ELSE IF m \in {4, 6, 9, 11} THEN 30 ELSE 31

\* A calendar date as the number yyyymmdd.
DateVal(y, m, d) == y * 10000 + m * 100 + d

\* The days a datetime64[ns] can hold at midnight: 1677-09-22 .. 2262-04-11.
InTimestampRange(n) == n >= 16770922 /\ n <= 22620411

\* The strings pandas reads as a missing date instead of parsing them.
nat_strings == {<<"N", "a", "T">>, <<"n", "a", "t">>, <<"N", "A", "T">>,
                <<"n", "a", "n">>, <<"N", "a", "N">>, <<"N", "A", "N">>}

NaT == [t |-> "NaT", s |-> <<>>, n |-> 0]
Timestamp(n) == [t |-> "Timestamp", s |-> <<>>, n |-> n]
ParseError == [t |-> "ValueError", s |-> <<>>, n |-> 0]

\* to_datetime with errors='coerce': text that does not parse becomes NaT.
ToDatetimeCoerce(cell) ==
    IF cell.t # "str" \/ cell.s = <<>> \/ cell.s \in nat_strings THEN NaT
    ELSE LET parts == Split(cell.s, "/") IN
         IF /\ Len(parts) = 3
            /\ AllDigits(parts[1]) /\ Len(parts[1]) \in {1, 2}
            /\ AllDigits(parts[2]) /\ Len(parts[2]) \in {1, 2}
            /\ AllDigits(parts[3]) /\ Len(parts[3]) = 4
            /\ Number(parts[2]) \in 1..12 /\ Number(parts[1]) >= 1
            /\ Number(parts[1]) <= DaysInMonth(Number(parts[3]), Number(parts[2]))
            /\ InTimestampRange(DateVal(Number(parts[3]), Number(parts[2]),
                                        Number(parts[1])))
         THEN Timestamp(DateVal(Number(parts[3]), Number(parts[2]), Number(parts[1])))
         ELSE NaT

\* One element of the column: a missing value, the empty string and the
\* nat_strings give NaT; any other text must match %d/%m/%Y as a whole (one
\* or two digits, one or two digits, four digits), name a day of the
\* calendar and fit datetime64[ns], or ValueError is raised.
ToDatetime(cell) ==
    IF cell.t = "nan" THEN NaT
    ELSE IF cell.t # "str" THEN ParseError
    ELSE IF cell.s = <<>> \/ cell.s \in nat_strings THEN NaT
    ELSE LET parts == Split(cell.s, "/") IN
         IF Len(parts) # 3 THEN ParseError
         ELSE IF ~(AllDigits(parts[1]) /\ Len(parts[1]) \in {1, 2}
                   /\ AllDigits(parts[2]) /\ Len(parts[2]) \in {1, 2}
                   /\ AllDigits(parts[3]) /\ Len(parts[3]) = 4)
              THEN ParseError
              ELSE LET d == Number(parts[1])
                       m == Number(parts[2])
                       y == Number(parts[3])
                   IN IF m \in 1..12 /\ y >= 1 /\ d >= 1 /\ d <= DaysInMonth(y, m)
                         /\ InTimestampRange(DateVal(y, m, d))
                      THEN Timestamp(DateVal(y, m, d))
                      ELSE ParseError

(***************************************************************************)
(* main, lines 164-199: the normalisation of one downloaded table.  The    *)
(* result is the new dataframe or the exception that ends the run.         *)
(***************************************************************************)
Bool(b) == [t |-> "bool", s |-> <<>>, n |-> IF b THEN 1 ELSE 0]

\* dataframe['age_range'].apply(get_age_average)
RECURSIVE ApplyAge(_)
ApplyAge(rows) ==
    IF rows = <<>> THEN <<>>
    ELSE <<[Head(rows) EXCEPT !.age_range = Int64(get_age_average(@))]>>
         \o ApplyAge(Tail(rows))

\* dataframe['conclusion_date'] = pd.to_datetime(...)
RECURSIVE ApplyToDatetime(_)
ApplyToDatetime(rows) ==
    IF rows = <<>> THEN <<>>
    ELSE <<[Head(rows) EXCEPT !.conclusion_date = ToDatetime(@)]>>
         \o ApplyToDatetime(Tail(rows))

\* a comparison that ignores the case of the letter
CompanyRepliedAnyCase(x) == Bool(x = Str(<<"S">>) \/ x = Str(<<"s">>))

\* lambda x: True if x == 'S' else False
CompanyReplied(x) == Bool(x = Str(<<"S">>))

RECURSIVE ApplyCompanyReplied(_)
ApplyCompanyReplied(rows) ==
    IF rows = <<>> THEN <<>>
    ELSE <<[Head(rows) EXCEPT !.company_replied = CompanyReplied(@)]>>
         \o ApplyCompanyReplied(Tail(rows))

Normalize(table) ==
    IF DropFails(table.ncols) THEN [err |-> "IndexError", rows |-> <<>>]
    ELSE IF RenameFails(table.ncols) THEN [err |-> "ValueError", rows |-> <<>>]
    ELSE LET renamed == ProjectRows(table.rows, table.ncols)
             stripped == strip_dataframe_strings(renamed)
             aged == ApplyAge(stripped)
             dated == ApplyToDatetime(aged)
         IN IF \E r \in 1..Len(dated) : dated[r].conclusion_date = ParseError
            THEN [err |-> "ValueError", rows |-> <<>>]
            ELSE [err |-> "none", rows |-> ApplyCompanyReplied(dated)]

(***************************************************************************)
(* main, lines 201-214: dataframe.to_json, json.loads and the loop that    *)
(* turns each conclusion_date back into a datetime.                        *)
(***************************************************************************)
None == [t |-> "None", s |-> <<>>, n |-> 0]

\* n written with w digits
RECURSIVE Pad(_, _)
Pad(n, w) == IF w = 0 THEN <<>> ELSE Pad(n \div 10, w - 1) \o <<Digits[(n % 10) + 1]>>

\* date_format='iso' for a Timestamp at midnight
IsoFormat(n) ==
    Pad(n \div 10000, 4) \o <<"-">> \o Pad((n \div 100) % 100, 2) \o <<"-">>
    \o Pad(n % 100, 2)
    \o <<"T", "0", "0", ":", "0", "0", ":", "0", "0", ".", "0", "0", "0", "Z">>

\* The JSON value of one cell once json.loads has read it back: missing
\* values and NaT are null, a float is written with no decimals
\* (double_precision=0), a Timestamp is its ISO text.
ToJson(cell) ==
    IF cell.t \in {"nan", "NaT"} THEN None
    ELSE IF cell.t = "float" THEN Int64(cell.n)
    ELSE IF cell.t = "Timestamp" THEN Str(IsoFormat(cell.n))
    ELSE cell

\* one row with its cells from the k-th column on as JSON values
RECURSIVE ToJsonFrom(_, _)
ToJsonFrom(row, k) ==
    IF k > Len(columns) THEN row
    ELSE ToJsonFrom([row EXCEPT ![columns[k]] = ToJson(@)], k + 1)

\* orient='records': one object per row, in row order
RECURSIVE to_json(_)
to_json(rows) ==
    IF rows = <<>> THEN <<>>
    ELSE <<ToJsonFrom(Head(rows), 1)>> \o to_json(Tail(rows))

StrptimeTypeError == [t |-> "TypeError", s |-> <<>>, n |-> 0]
StrptimeValueError == [t |-> "ValueError", s |-> <<>>, n |-> 0]

\* datetime.strptime(x, "%Y-%m-%dT%H:%M:%S.%fZ"): a datetime cell holds the
\* day in n and the text of the time of day in s.
Strptime(x) ==
    IF x.t # "str" THEN StrptimeTypeError
    ELSE LET halves == Split(x.s, "T") IN
         IF Len(halves) # 2 THEN StrptimeValueError
         ELSE LET ymd == Split(halves[1], "-")
                  tod == halves[2]
                  hms == Split(SubSeq(tod, 1, Len(tod) - 1), ":")
              IN IF Len(ymd) # 3 \/ Len(hms) # 3 \/ tod = <<>>
                 THEN StrptimeValueError
                 ELSE LET sf == Split(hms[3], ".")
                          y == Number(ymd[1])
                          m == Number(ymd[2])
                          d == Number(ymd[3])
                      IN
                      IF /\ tod[Len(tod)] = "Z"
                         /\ Len(sf) = 2
                         /\ \A part \in {ymd[1], ymd[2], ymd[3], hms[1], hms[2],
                                         sf[1], sf[2]} :
                                AllDigits(part) /\ part # <<>>
                         /\ Len(ymd[1]) = 4 /\ y >= 1
                         /\ Len(ymd[2]) <= 2 /\ m \in 1..12
                         /\ Len(ymd[3]) <= 2 /\ d >= 1 /\ d <= DaysInMonth(y, m)
                         /\ Len(hms[1]) <= 2 /\ Number(hms[1]) <= 23
                         /\ Len(hms[2]) <= 2 /\ Number(hms[2]) <= 59
                         /\ Len(sf[1]) <= 2 /\ Number(sf[1]) <= 61
                         /\ Len(sf[2]) <= 6
                      THEN [t |-> "datetime",
                            s |-> SubSeq(tod, 1, Len(tod) - 1),
                            n |-> DateVal(y, m, d)]
                      ELSE StrptimeValueError

\* The loop of lines 210-214 from position k on: acc is documents so far.
RECURSIVE DocumentsLoop(_, _, _)
DocumentsLoop(parsed, k, acc) ==
    IF k > Len(parsed) THEN [err |-> "none", docs |-> acc]
    ELSE LET single_document == parsed[k]
             date == Strptime(single_document.conclusion_date)
         IN IF date.t \in {"TypeError", "ValueError"}
            THEN [err |-> date.t, docs |-> <<>>]
            ELSE DocumentsLoop(parsed, k + 1,
                     Append(acc, [single_document EXCEPT !.conclusion_date = date]))

Documents(parsed) == DocumentsLoop(parsed, 1, <<>>)

(***************************************************************************)
(* The inputs the model draws from.                                        *)
(***************************************************************************)
SeqsUpTo(S, n) == UNION {[1..k -> S] : k \in 0..n}

\* titles of publications: "Dados XYZ", "Dados", "DadosX", "Dado", "dados x",
\* " Dados", "Outro" and the empty title
Titles ==
    {<<"D", "a", "d", "o", "s", " ", "X", "Y", "Z">>,
     <<"D", "a", "d", "o", "s">>,
     <<"D", "a", "d", "o", "s", "X">>,
     <<"D", "a", "d", "o">>,
     <<"d", "a", "d", "o", "s", " ", "x">>,
     <<" ", "D", "a", "d", "o", "s">>,
     <<"O", "u", "t", "r", "o">>,
     <<>>}

Codes == {"A1", "B2"}

\* the entries of an index whose objects may lack a key
IndexEntries ==
    {Entry(t, c) : t \in Titles, c \in Codes}
    \cup {NoTitulo(c) : c \in Codes}
    \cup {NoCodigo(t) : t \in Titles}

\* the entries of the index of a whole run
RunEntries ==
    {Entry(<<"D", "a", "d", "o", "s", " ", "X", "Y", "Z">>, "A1"),
     Entry(<<"O", "u", "t", "r", "o">>, "B2"),
     NoCodigo(<<"O", "u", "t", "r", "o">>),
     NoCodigo(<<"D", "a", "d", "o", "s", " ", "X", "Y", "Z">>),
     NoTitulo("A1")}

\* age_range cells: the six labels, a padded label, the label of the
\* docstring, "mais de 70 anos", the empty string and a missing value
AgeCells ==
    {Str(AGE_LESS_20), Str(AGE_BTW_21_AND_30), Str(AGE_BTW_31_AND_40),
     Str(AGE_BTW_41_AND_50), Str(AGE_BTW_51_AND_60), Str(AGE_BTW_61_AND_70),
     Str(<<" ">> \o AGE_LESS_20 \o <<" ">>),
     Str(AGE_BTW_21_AND_30 \o <<" ", "a", "n", "o", "s">>),
     Str(<<"m", "a", "i", "s", " ", "d", "e", " ", "7", "0", " ", "a", "n", "o", "s">>),
     Str(<<>>),
     NaN}

\* conclusion_date cells that parse: "15/03/2020", "1/3/2020 " and "29/02/2020"
GoodDates ==
    {Str(<<"1", "5", "/", "0", "3", "/", "2", "0", "2", "0">>),
     Str(<<"1", "/", "3", "/", "2", "0", "2", "0", " ">>),
     Str(<<"2", "9", "/", "0", "2", "/", "2", "0", "2", "0">>)}

\* text that is no date and that to_datetime rejects: "2020-03-15",
\* "15/03/20", "31/02/2020", "15/03/2020x", "15/13/2020"
RejectedDates ==
    {Str(<<"2", "0", "2", "0", "-", "0", "3", "-", "1", "5">>),
     Str(<<"1", "5", "/", "0", "3", "/", "2", "0">>),
     Str(<<"3", "1", "/", "0", "2", "/", "2", "0", "2", "0">>),
     Str(<<"1", "5", "/", "0", "3", "/", "2", "0", "2", "0", "x">>),
     Str(<<"1", "5", "/", "1", "3", "/", "2", "0", "2", "0">>)}

\* text that is no date and that to_datetime reads as missing: "NaT", and a
\* blank cell "  "
BlankDates == {Str(<<"N", "a", "T">>), Str(<<" ", " ">>)}

\* company_replied cells: "S", " S ", "S ", "N", "s", "SS", "" and missing
RepliedCells ==
    {Str(<<"S">>), Str(<<" ", "S", " ">>), Str(<<"S", " ">>), Str(<<"N">>),
     Str(<<"s">>), Str(<<"S", "S">>), Str(<<>>), NaN}

Letters == <<"a", "b", "c", "d", "e", "f", "g", "h", "i", "j", "k", "l", "m",
             "n", "o", "p", "q", "r", "s", "t", "u">>

\* A row of ncols cells: the text cell of position p is the mark v and the
\* p-th letter, padded with a blank on each side; days_to_reply (6) and
\* customer_rating (18) are numbers.
MakeRow(ncols, age, date, replied, v) ==
    [q \in 1..ncols |->
        IF q = 5 THEN age
        ELSE IF q = 6 THEN date
        ELSE IF q = 16 THEN replied
        ELSE IF q = 7 THEN Float(3)
        ELSE IF q = 19 THEN (IF v = "x" THEN Float(5) ELSE NaN)
        ELSE Str(<<" ", v, Letters[q], " ">>)]

Marks == {"x", "y"}

\* every row the normaliser is tried on
AllRows ==
    {MakeRow(20, age, date, replied, v) :
        age \in AgeCells, date \in GoodDates \cup RejectedDates \cup BlankDates \cup {NaN},
        replied \in RepliedCells, v \in Marks}

\* rows of a whole run that normalise: a padded ' S ' and a date
\* "15/03/2020"; a missing age, 'N' and a date "1/3/2020 "
GoodRows ==
    {MakeRow(20, Str(AGE_LESS_20), Str(<<"1", "5", "/", "0", "3", "/", "2", "0", "2", "0">>),
             Str(<<" ", "S", " ">>), "x"),
     MakeRow(20, NaN, Str(<<"1", "/", "3", "/", "2", "0", "2", "0", " ">>),
             Str(<<"N">>), "y")}

\* rows of a whole run whose date is no date: "15/03/20", which to_datetime
\* rejects, and the blank "  "
BadRows ==
    {MakeRow(20, Str(AGE_BTW_21_AND_30), Str(<<"1", "5", "/", "0", "3", "/", "2", "0">>),
             Str(<<"S">>), "x"),
     MakeRow(20, Str(AGE_BTW_31_AND_40), Str(<<" ", " ">>), Str(<<"S">>), "y")}

\* up to n good rows, no row the same as the one before it
GoodTables(n) ==
    {rows \in SeqsUpTo(GoodRows, n) : \A r \in 2..Len(rows) : rows[r] # rows[r - 1]}

\* the tables a download can give: up to MaxRows good rows; good rows, a
\* bad row and perhaps one more row, good or bad, up to MaxRows in all; a
\* table of 19 and one of 21 columns
RunTables ==
    {Table(20, rows) : rows \in GoodTables(MaxRows)}
    \cup {Table(20, Append(rows, bad)) : rows \in GoodTables(MaxRows - 1), bad \in BadRows}
    \cup {Table(20, <<bad, row>>) : bad \in BadRows, row \in GoodRows \cup BadRows}
    \cup {Table(n, <<MakeRow(n, NaN, NaN, NaN, "x")>>) : n \in {19, 21}}

(***************************************************************************)
(* The run of main.                                                        *)
(***************************************************************************)
NoError == [kind |-> "none", stage |-> "none", at |-> 0]
Raised(kind, stage, at) == [kind |-> kind, stage |-> stage, at |-> at]

\* one step of main on the code of position at, completed or not
Step(op, at, ok) == [op |-> op, at |-> at, ok |-> ok]

Unset == Table(0, <<>>)

\* The state main starts from, but for the index payload.
Fresh ==
    /\ file_codes = <<>>
    /\ i = 0
    /\ error = NoError
    /\ dataframe = Unset
    /\ parsed_documents = <<>>
    /\ documents = <<>>
    /\ clients = <<>>
    /\ sink = <<>>
    /\ log = <<>>
    /\ returned = FALSE
    /\ age_out = 0

Init ==
    /\ index \in SeqsUpTo(RunEntries, MaxEntries)
    /\ pc = "start"
    /\ fetched = <<>>
    /\ age_in = NaN
    /\ Fresh

\* An uncaught exception ends the run where it is raised.
Abort(kind, stage) ==
    /\ pc' = "aborted"
    /\ error' = Raised(kind, stage, i)
    /\ log' = Append(log, Step(stage, i, FALSE))

\* line 161, get_file_codes returns: the loop starts at the first code.
GetFileCodesOk ==
    /\ pc = "start"
    /\ LET result == get_file_codes(index) IN
        /\ result.err = "none"
        /\ file_codes' = result.codes
    /\ i' = 1
    /\ pc' = "fetch"
    /\ log' = Append(log, Step("index", 0, TRUE))
    /\ UNCHANGED <<index, error, dataframe, parsed_documents, documents, clients,
                   sink, fetched, returned, age_in, age_out>>

\* lines 71-72 raise KeyError.
GetFileCodesKeyError ==
    /\ pc = "start"
    /\ LET result == get_file_codes(index) IN
        /\ result.err # "none"
        /\ Abort(result.err, "index")
    /\ UNCHANGED <<index, file_codes, i, dataframe, parsed_documents, documents,
                   clients, sink, fetched, returned, age_in, age_out>>

\* lines 65-67: urlopen cannot reach the portal, or json.loads rejects what
\* came back.
GetFileCodesTransportError ==
    /\ pc = "start"
    /\ \E kind \in {"URLError", "JSONDecodeError"} : Abort(kind, "index")
    /\ UNCHANGED <<index, file_codes, i, dataframe, parsed_documents, documents,
                   clients, sink, fetched, returned, age_in, age_out>>

\* line 162: the download gives some table.
Fetch ==
    /\ pc = "fetch"
    /\ i <= Len(file_codes)
    /\ \E table \in RunTables :
        /\ dataframe' = table
        /\ fetched' = Append(fetched, table)
    /\ pc' = "normalize"
    /\ log' = Append(log, Step("fetch", i, TRUE))
    /\ UNCHANGED <<index, file_codes, i, error, parsed_documents, documents,
                   clients, sink, returned, age_in, age_out>>

\* A failed download that is skipped: the loop goes on to the next code.
FetchFailSkips ==
    /\ pc = "fetch"
    /\ i <= Len(file_codes)
    /\ \E kind \in {"URLError", "BadZipFile"} : error' = Raised(kind, "fetch", i)
    /\ log' = Append(log, Step("fetch", i, FALSE))
    /\ i' = i + 1
    /\ pc' = "fetch"
    /\ UNCHANGED <<index, file_codes, dataframe, parsed_documents, documents,
                   clients, sink, fetched, returned, age_in, age_out>>

\* line 162: read_csv cannot download or decode the archive.
FetchFail ==
    /\ pc = "fetch"
    /\ i <= Len(file_codes)
    /\ \E kind \in {"URLError", "BadZipFile"} : Abort(kind, "fetch")
    /\ UNCHANGED <<index, file_codes, i, dataframe, parsed_documents, documents,
                   clients, sink, fetched, returned, age_in, age_out>>

\* lines 164-199 run to the end.
NormalizeOk ==
    /\ pc = "normalize"
    /\ LET result == Normalize(dataframe) IN
        /\ result.err = "none"
        /\ dataframe' = Table(Len(columns), result.rows)
    /\ pc' = "emit"
    /\ log' = Append(log, Step("normalize", i, TRUE))
    /\ UNCHANGED <<index, file_codes, i, error, parsed_documents, documents,
                   clients, sink, fetched, returned, age_in, age_out>>

\* lines 164-199 raise.
NormalizeFail ==
    /\ pc = "normalize"
    /\ LET result == Normalize(dataframe) IN
        /\ result.err # "none"
        /\ Abort(result.err, "normalize")
    /\ UNCHANGED <<index, file_codes, i, dataframe, parsed_documents, documents,
                   clients, sink, fetched, returned, age_in, age_out>>

\* lines 201-208
Serialize ==
    /\ pc = "emit"
    /\ parsed_documents' = to_json(dataframe.rows)
    /\ pc' = "convert"
    /\ log' = Append(log, Step("to_json", i, TRUE))
    /\ UNCHANGED <<index, file_codes, i, error, dataframe, documents, clients,
                   sink, fetched, returned, age_in, age_out>>

\* The loop of lines 211-214 without line 210: documents is not emptied.
ConvertOkKeepsDocuments ==
    /\ pc = "convert"
    /\ LET result == Documents(parsed_documents) IN
        /\ result.err = "none"
        /\ documents' = documents \o result.docs
    /\ pc' = "connect"
    /\ log' = Append(log, Step("emit", i, TRUE))
    /\ UNCHANGED <<index, file_codes, i, error, dataframe, parsed_documents,
                   clients, sink, fetched, returned, age_in, age_out>>

\* lines 210-214 run to the end.
ConvertOk ==
    /\ pc = "convert"
    /\ LET result == Documents(parsed_documents) IN
        /\ result.err = "none"
        /\ documents' = result.docs
    /\ pc' = "connect"
    /\ log' = Append(log, Step("emit", i, TRUE))
    /\ UNCHANGED <<index, file_codes, i, error, dataframe, parsed_documents,
                   clients, sink, fetched, returned, age_in, age_out>>

\* line 212 raises; line 210 has already emptied documents.
ConvertFail ==
    /\ pc = "convert"
    /\ LET result == Documents(parsed_documents) IN
        /\ result.err # "none"
        /\ Abort(result.err, "emit")
    /\ documents' = <<>>
    /\ UNCHANGED <<index, file_codes, i, dataframe, parsed_documents, clients,
                   sink, fetched, returned, age_in, age_out>>

\* line 217
Connect ==
    /\ pc = "connect"
    /\ clients' = Append(clients, "open")
    /\ pc' = "insert"
    /\ log' = Append(log, Step("connect", i, TRUE))
    /\ UNCHANGED <<index, file_codes, i, error, dataframe, parsed_documents,
                   documents, sink, fetched, returned, age_in, age_out>>

\* line 217: MongoClient cannot resolve the mongodb+srv host.
ConnectFail ==
    /\ pc = "connect"
    /\ Abort("ConfigurationError", "connect")
    /\ UNCHANGED <<index, file_codes, i, dataframe, parsed_documents, documents,
                   clients, sink, fetched, returned, age_in, age_out>>

\* line 219: insert_many stores the batch.
InsertOk ==
    /\ pc = "insert"
    /\ documents # <<>>
    /\ sink' = sink \o documents
    /\ pc' = "close"
    /\ log' = Append(log, Step("insert", i, TRUE))
    /\ UNCHANGED <<index, file_codes, i, error, dataframe, parsed_documents,
                   documents, clients, fetched, returned, age_in, age_out>>

\* line 219: insert_many raises TypeError for an empty list; a server or
\* network error stops an ordered insert after the documents already stored.
InsertFail ==
    /\ pc = "insert"
    /\ \/ /\ documents = <<>>
          /\ sink' = sink
          /\ Abort("TypeError", "insert")
       \/ /\ documents # <<>>
          /\ \E stored \in 0..Len(documents) :
                sink' = sink \o SubSeq(documents, 1, stored)
          /\ \E kind \in {"BulkWriteError", "AutoReconnect"} : Abort(kind, "insert")
    /\ UNCHANGED <<index, file_codes, i, dataframe, parsed_documents, documents,
                   clients, fetched, returned, age_in, age_out>>

\* A loop that steps over the code after the one just stored.
CloseSkipsNext ==
    /\ pc = "close"
    /\ clients' = [clients EXCEPT ![Len(clients)] = "closed"]
    /\ i' = i + 2
    /\ pc' = "fetch"
    /\ log' = Append(log, Step("close", i, TRUE))
    /\ UNCHANGED <<index, file_codes, error, dataframe, parsed_documents,
                   documents, sink, fetched, returned, age_in, age_out>>

\* line 220, and the loop moves to the next code.
Close ==
    /\ pc = "close"
    /\ clients' = [clients EXCEPT ![Len(clients)] = "closed"]
    /\ i' = i + 1
    /\ pc' = "fetch"
    /\ log' = Append(log, Step("close", i, TRUE))
    /\ UNCHANGED <<index, file_codes, error, dataframe, parsed_documents,
                   documents, sink, fetched, returned, age_in, age_out>>

\* line 222
Return ==
    /\ pc = "fetch"
    /\ i > Len(file_codes)
    /\ returned' = TRUE
    /\ pc' = "done"
    /\ UNCHANGED <<index, file_codes, i, error, dataframe, parsed_documents,
                   documents, clients, sink, fetched, log, age_in, age_out>>

Next ==
    \/ GetFileCodesOk
    \/ GetFileCodesKeyError
    \/ GetFileCodesTransportError
    \/ Fetch
    \/ FetchFail
    \/ NormalizeOk
    \/ NormalizeFail
    \/ Serialize
    \/ ConvertOk
    \/ ConvertFail
    \/ Connect
    \/ ConnectFail
    \/ InsertOk
    \/ InsertFail
    \/ Close
    \/ Return

Spec == Init /\ [][Next]_vars

(***************************************************************************)
(* get_file_codes on its own: every index payload up to MaxEntries entries.*)
(***************************************************************************)
InitCodes ==
    /\ index \in SeqsUpTo(IndexEntries, MaxEntries)
    /\ pc = "start"
    /\ fetched = <<>>
    /\ age_in = NaN
    /\ Fresh

NextCodes ==
    \/ GetFileCodesOk
    \/ GetFileCodesKeyError
    \/ GetFileCodesTransportError

SpecCodes == InitCodes /\ [][NextCodes]_vars

(***************************************************************************)
(* The normalisation of one row, and get_age_average applied to the age    *)
(* cell of that row as it was downloaded.                                  *)
(***************************************************************************)
InitRow ==
    /\ \E row \in AllRows :
        /\ dataframe = Table(20, <<row>>)
        /\ fetched = <<Table(20, <<row>>)>>
        /\ age_in = row[5]
    /\ index = <<Entry(<<"D", "a", "d", "o", "s", " ", "X", "Y", "Z">>, "A1")>>
    /\ file_codes = <<"A1">>
    /\ i = 1
    /\ pc = "normalize"
    /\ error = NoError
    /\ parsed_documents = <<>>
    /\ documents = <<>>
    /\ clients = <<>>
    /\ sink = <<>>
    /\ log = <<Step("index", 0, TRUE), Step("fetch", 1, TRUE)>>
    /\ returned = FALSE
    /\ age_out = 0

\* get_age_average(age_in) returns.
GetAgeAverage ==
    /\ age_out = 0
    /\ age_out' = get_age_average(age_in)
    /\ UNCHANGED <<index, file_codes, pc, i, error, dataframe, parsed_documents,
                   documents, clients, sink, fetched, log, returned, age_in>>

NextRow ==
    \/ NormalizeOk
    \/ NormalizeFail
    \/ Serialize
    \/ ConvertOk
    \/ ConvertFail
    \/ GetAgeAverage

SpecRow == InitRow /\ [][NextRow]_vars

(***************************************************************************)
(* Properties of get_file_codes.                                           *)
(***************************************************************************)
\* every object of the payload has both keys
WellFormed(payload) ==
    \A k \in 1..Len(payload) : payload[k].has_titulo /\ payload[k].has_codigo

\* the title begins with the five characters D, a, d, o, s
StartsWithDados(titulo) ==
    /\ Len(titulo) >= 5
    /\ titulo[1] = "D" /\ titulo[2] = "a" /\ titulo[3] = "d"
    /\ titulo[4] = "o" /\ titulo[5] = "s"

\* the codes of the entries of payload whose title begins with Dados, in
\* the order of the payload
DadosCodes(payload) ==
    LET kept == SelectSeq(payload, LAMBDA e : StartsWithDados(e.titulo))
    IN [k \in 1..Len(kept) |-> kept[k].codigo]

\* C1: for every index payload whose entries all have titulo and codigo,
\* get_file_codes raises nothing and returns exactly the codigo of the
\* entries whose titulo begins with 'Dados', in the order of the payload
\* (the empty list when none does).
C1_FileCodes ==
    (WellFormed(index) /\ pc # "start") =>
        /\ error.kind # "KeyError"
        /\ error = NoError => (pc = "fetch" /\ file_codes = DadosCodes(index))

\* a payload of two entries whose second only is a Dados publication
C1_Witness ==
    /\ pc = "fetch"
    /\ WellFormed(index)
    /\ Len(index) = 2
    /\ ~StartsWithDados(index[1].titulo)
    /\ file_codes = <<index[2].codigo>>

(***************************************************************************)
(* Properties of the normalisation of a row.                               *)
(***************************************************************************)
\* the row as downloaded, and the same row after lines 164-199
RawRow == fetched[1].rows[1]
Normalized == dataframe.rows[1]
IsNormalized == pc \in {"emit", "convert", "connect"}

AgeValues == {20, 26, 36, 46, 56, 66, 70}

IsPaddedS(text) ==
    \E k \in 1..Len(text) :
        text[k] = "S" /\ \A j \in 1..Len(text) : j # k => text[j] = " "

\* C9 as stated: company_replied is true iff the cell as downloaded is
\* exactly 'S'.
C9_RawEqualsS ==
    IsNormalized => (Normalized.company_replied = Bool(RawRow[16] = Str(<<"S">>)))

\* C9 as the code has it: company_replied is true iff the cell, once
\* strip_dataframe_strings has trimmed it, is exactly 'S': so 'S ' and ' S '
\* give true, and '', 'N', 's', 'SS' and a missing value give false.
C9_TrimmedEqualsS ==
    IsNormalized =>
        (Normalized.company_replied
            = Bool(RawRow[16].t = "str" /\ IsPaddedS(RawRow[16].s)))

\* a cell ' S ' was normalised to true
C9_Witness ==
    /\ IsNormalized
    /\ RawRow[16] = Str(<<" ", "S", " ">>)
    /\ Normalized.company_replied = Bool(TRUE)

\* the position, in the downloaded table, of the cell each field is made of
FieldPosition ==
    [region |-> 0, state |-> 1, city |-> 2, gender |-> 3, age_range |-> 4,
     conclusion_date |-> 5, days_to_reply |-> 6, company_name |-> 7,
     market_segment |-> 8, problem_reported |-> 12, company_replied |-> 15,
     customer_rating |-> 18]

\* what lines 185-199 make of the single cell that becomes the field name
FieldOf(name, cell) ==
    LET trimmed == IF cell.t = "str" THEN Str(Strip(cell.s)) ELSE cell IN
    IF name = "age_range" THEN Int64(get_age_average(trimmed))
    ELSE IF name = "conclusion_date" THEN ToDatetime(trimmed)
    ELSE IF name = "company_replied" THEN CompanyReplied(trimmed)
    ELSE trimmed

\* C10: the record of a 20-column row has the twelve fields region .. 
\* customer_rating, and each is made of the one cell at position 0, 1, 2, 3,
\* 4, 5, 6, 7, 8, 12, 15, 18 respectively: the cells at 9, 10, 11, 13, 14,
\* 16, 17, 19 enter no field.
C10_Projection ==
    IsNormalized =>
        /\ DOMAIN Normalized = DOMAIN FieldPosition
        /\ \A name \in DOMAIN FieldPosition :
              Normalized[name] = FieldOf(name, RawRow[FieldPosition[name] + 1])

\* a row was normalised whose cells at positions 8 and 12 differ from the
\* dropped cells around them
C10_Witness ==
    /\ IsNormalized
    /\ Normalized.market_segment = Str(<<"x", "i">>)
    /\ Normalized.problem_reported = Str(<<"x", "m">>)
    /\ RawRow[10] = Str(<<" ", "x", "j", " ">>)

(***************************************************************************)
(* Properties of the run.                                                  *)
(***************************************************************************)
\* the documents lines 164-214 make of a downloaded table
BatchOf(table) == Documents(to_json(Normalize(table).rows)).docs

\* the batches of the first n downloaded tables, one after the other
RECURSIVE Batches(_, _)
Batches(tables, n) ==
    IF n <= 0 THEN <<>> ELSE Batches(tables, n - 1) \o BatchOf(tables[n])

\* the steps logged for the code of position k
StepsAt(k) == {j \in 1..Len(log) : log[j].at = k}

Failed == error # NoError

\* some object of the payload lacks a key
HasMissingKey(payload) ==
    \E k \in 1..Len(payload) : ~payload[k].has_titulo \/ ~payload[k].has_codigo

\* some object lacks titulo, or is a Dados publication and lacks codigo
HasMissingUsedKey(payload) ==
    \E k \in 1..Len(payload) :
        \/ ~payload[k].has_titulo
        \/ StartsWithDados(payload[k].titulo) /\ ~payload[k].has_codigo

NothingProcessed ==
    /\ fetched = <<>>
    /\ sink = <<>>
    /\ clients = <<>>
    /\ ~returned
    /\ \A j \in 1..Len(log) : log[j].op = "index"

\* C6 as stated: when the index cannot be read, or any of its objects lacks
\* titulo or codigo, the run ends there: nothing is fetched or inserted.
C6_AnyMissingKey ==
    /\ (HasMissingKey(index) /\ pc # "start") => (pc = "aborted" /\ NothingProcessed)
    /\ error.stage = "index" => (pc = "aborted" /\ NothingProcessed)

\* C6 as the code has it: when the index cannot be read, or one of its
\* objects lacks titulo, or one whose titulo begins with 'Dados' lacks
\* codigo, the run ends there: nothing is fetched or inserted, not even for
\* the Dados entries before that object.
C6_MissingUsedKey ==
    /\ (HasMissingUsedKey(index) /\ pc # "start") =>
          (pc = "aborted" /\ error.stage = "index" /\ NothingProcessed)
    /\ error.stage = "index" =>
          (pc = "aborted" /\ NothingProcessed /\ file_codes = <<>>)

\* the run ended on an object without titulo that follows a Dados entry
C6_Witness ==
    /\ pc = "aborted"
    /\ error = Raised("KeyError", "index", 0)
    /\ Len(index) = 2
    /\ index[1].has_codigo /\ StartsWithDados(index[1].titulo)
    /\ ~index[2].has_titulo

\* what holds after a failure on the k-th code, whatever the sink holds
AbortedAtOnce ==
    /\ pc = "aborted"
    /\ ~returned
    /\ log[Len(log)] = Step(error.stage, error.at, FALSE)
    /\ \A j \in 1..Len(log) : log[j].at <= error.at
    /\ \A j \in 1..(Len(log) - 1) : log[j].ok

\* C2 as stated: after a failure on the k-th code nothing more is done, main
\* does not return, and the sink holds exactly the batches of the codes
\* before the k-th.
C2_SinkHoldsEarlierBatches ==
    (Failed /\ error.stage # "index") =>
        /\ AbortedAtOnce
        /\ sink = Batches(fetched, error.at - 1)

\* C2 as the code has it: after a failure on the k-th code nothing more is
\* done, main does not return, and the sink holds the batches of the codes
\* before the k-th, followed, when it is insert_many that failed, by the
\* first documents of the k-th batch that were stored before the failure.
C2_SinkHoldsEarlierBatchesAndPrefix ==
    (Failed /\ error.stage # "index") =>
        /\ AbortedAtOnce
        /\ LET earlier == Batches(fetched, error.at - 1) IN
            \E stored \in 0..Len(documents) :
                /\ error.stage # "insert" => stored = 0
                /\ Len(sink) = Len(earlier) + stored
                /\ sink = earlier \o SubSeq(documents, 1, stored)

\* insert_many failed on the second code after storing one document of two
C2_Witness ==
    /\ pc = "aborted"
    /\ error.stage = "insert"
    /\ error.at = 2
    /\ Len(documents) = 2
    /\ sink = Batches(fetched, 1) \o <<documents[1]>>

\* the text is core between any number of blanks
IsPadded(text, core) ==
    \E a \in 0..Len(text) :
        /\ a + Len(core) <= Len(text)
        /\ SubSeq(text, a + 1, a + Len(core)) = core
        /\ \A j \in 1..Len(text) : (j <= a \/ j > a + Len(core)) => text[j] = " "

\* one or two digits, a slash, one or two digits, a slash, four digits
IsDayMonthYear(text) ==
    \E p \in {2, 3} : \E q \in {p + 2, p + 3} :
        /\ Len(text) = q + 4
        /\ text[p] = "/"
        /\ text[q] = "/"
        /\ \A j \in 1..Len(text) : j \notin {p, q} => IsDigit(text[j])

\* the cell is text that is no day/month/year, even without the blanks
\* around it
NonConforming(cell) ==
    /\ cell.t = "str"
    /\ ~\E a, b \in 0..Len(cell.s) :
          /\ a + b <= Len(cell.s)
          /\ \A j \in 1..a : cell.s[j] = " "
          /\ \A j \in (Len(cell.s) - b + 1)..Len(cell.s) : cell.s[j] = " "
          /\ IsDayMonthYear(SubSeq(cell.s, a + 1, Len(cell.s) - b))

\* the cell is text that to_datetime reads as a missing date once trimmed
ReadAsMissing(cell) ==
    /\ cell.t = "str"
    /\ \E core \in nat_strings \cup {<<>>} : IsPadded(cell.s, core)

\* the conclusion_date cells of a 20-column table that are no dates
NonConformingDates(table) ==
    IF table.ncols # 20 THEN {}
    ELSE {table.rows[r][6] : r \in {k \in 1..Len(table.rows) :
                                        NonConforming(table.rows[k][6])}}

OpsAt(k) == {log[j].op : j \in StepsAt(k)}

\* C3 as stated: a file with a conclusion_date that is no day/month/year
\* ends the run with the ValueError of to_datetime: nothing of the file is
\* serialised or inserted and no connection is opened for it.
C3_ParseErrorBeforeSerialising ==
    \A k \in 1..Len(fetched) :
        NonConformingDates(fetched[k]) # {} =>
            /\ OpsAt(k) \subseteq {"fetch", "normalize"}
            /\ "normalize" \in OpsAt(k) =>
                  (pc = "aborted" /\ error = Raised("ValueError", "normalize", k))
            /\ sink = Batches(fetched, k - 1)
            /\ Len(clients) = k - 1

\* C3 as the code has it: a file with a conclusion_date that is no
\* day/month/year, even once trimmed, ends the run before a connection is
\* opened for it and nothing of it is inserted.  The run ends with the
\* ValueError of to_datetime, nothing serialised, when one such text is
\* neither blank nor a spelling of NaT or nan; otherwise to_datetime reads
\* the text as a missing date, to_json serialises the rows and the run ends
\* with the TypeError of strptime in the loop that follows.
C3_AbortBeforeConnecting ==
    \A k \in 1..Len(fetched) :
        NonConformingDates(fetched[k]) # {} =>
            /\ OpsAt(k) \subseteq {"fetch", "normalize", "to_json", "emit"}
            /\ sink = Batches(fetched, k - 1)
            /\ Len(clients) = k - 1
            /\ IF \E cell \in NonConformingDates(fetched[k]) : ~ReadAsMissing(cell)
               THEN /\ "to_json" \notin OpsAt(k)
                    /\ "normalize" \in OpsAt(k) =>
                         (pc = "aborted" /\ error = Raised("ValueError", "normalize", k))
               ELSE /\ "normalize" \in OpsAt(k) => pc \in {"emit", "convert", "aborted"}
                    /\ "emit" \in OpsAt(k) =>
                         (pc = "aborted" /\ error = Raised("TypeError", "emit", k))

\* the run ended in strptime on a file whose second row has a blank date
C3_Witness ==
    /\ pc = "aborted"
    /\ error = Raised("TypeError", "emit", i)
    /\ Len(fetched[i].rows) = 2
    /\ ~NonConforming(fetched[i].rows[1][6])
    /\ NonConforming(fetched[i].rows[2][6])
    /\ Len(parsed_documents) = 2

\* C4: at most one MongoClient is open at any time, none is open but
\* between MongoClient(db_uri) and client.close() around the one insert_many
\* of a file, whichever way insert_many ends, and none is open when the run
\* has ended.
C4_ConnectionScoped ==
    /\ Cardinality({k \in 1..Len(clients) : clients[k] = "open"}) <= 1
    /\ pc \notin {"insert", "close"} =>
          \A k \in 1..Len(clients) : clients[k] = "closed"

Ops == <<"fetch", "normalize", "to_json", "emit", "connect", "insert", "close">>

\* C5: the files are processed one after the other in the order of
\* file_codes: the steps taken are the index, then for the codes 1, 2, ...
\* in turn fetch, normalize, to_json, emit, connect, insert, close, each at
\* most once and only when all before it succeeded; a run is over only by a
\* failure or by line 222; and a run that reached line 222 took every step
\* once for every code, stored every batch and returned True.
C5_Sequential ==
    /\ \A j \in 1..Len(log) :
        /\ j = 1 => (log[j].op = "index" /\ log[j].at = 0)
        /\ j > 1 => /\ log[j].op = Ops[((j - 2) % Len(Ops)) + 1]
                    /\ log[j].at = ((j - 2) \div Len(Ops)) + 1
                    /\ log[j].at <= Len(file_codes)
        /\ j < Len(log) => log[j].ok
    /\ pc = "aborted" <=> Failed
    /\ returned <=> pc = "done"
    /\ pc \notin {"aborted", "done"} =>
          pc \in {"start", "fetch", "normalize", "emit", "convert", "connect",
                  "insert", "close"}
    /\ (pc = "fetch" /\ i > Len(file_codes)) => Len(log) = 1 + Len(Ops) * Len(file_codes)
    /\ pc = "done" =>
        /\ ~Failed
        /\ Len(log) = 1 + Len(Ops) * Len(file_codes)
        /\ \A j \in 1..Len(log) : log[j].ok
        /\ Len(fetched) = Len(file_codes)
        /\ Len(clients) = Len(file_codes)
        /\ sink = Batches(fetched, Len(file_codes))

\* main returned after two files
C5_Witness ==
    /\ pc = "done"
    /\ returned
    /\ Len(file_codes) = 2
    /\ Len(fetched) = 2
    /\ Len(sink) >= 2

\* the document lines 164-214 make of one row on its own
RowDocument(row) == BatchOf(Table(20, <<row>>))[1]

\* C7: the batch insert_many stored for a file has one document per row of
\* the table downloaded for that file, in the order of the rows, and nothing
\* else; the sink holds the batches of the files so far and nothing else.
C7_BatchIsTheFile ==
    pc = "close" =>
        /\ Len(documents) = Len(fetched[i].rows)
        /\ \A r \in 1..Len(documents) : documents[r] = RowDocument(fetched[i].rows[r])
        /\ Len(sink) >= Len(documents)
        /\ SubSeq(sink, Len(sink) - Len(documents) + 1, Len(sink)) = documents
        /\ sink = Batches(fetched, i)

\* the second file, of two different rows, was stored after a different file
C7_Witness ==
    /\ pc = "close"
    /\ i = 2
    /\ Len(documents) = 2
    /\ documents[1] # documents[2]
    /\ fetched[1] # fetched[2]

====
